---- MODULE Spec2Model ----
(***************************************************************************)
(* The falling-block engine of src/tetris.py: the Piece class, the board   *)
(* helpers, the Game class and the part of main() that routes key events   *)
(* and frames to the engine.  Rendering and fonts hold no state and are    *)
(* left out.                                                               *)
(*                                                                         *)
(* Rows and columns are numbered from 0 as in the source; board[r][c].     *)
(* A method of Game is an operator from the game record (self) to the game *)
(* record after the call; a method that returns a value yields             *)
(* [self |-> ..., result |-> ...].  The outcome of random.shuffle is an    *)
(* argument (perm) of every operator that may refill the bag.              *)
(***************************************************************************)
EXTENDS Integers, Sequences, FiniteSets, TLC

\* ------------------------------------------------------------------------
\* Constants (tetris.py 17-85)
\* ------------------------------------------------------------------------

COLS == 10

ROWS == 20

\* The value of an empty cell (Python None).
None == "None"

PIECE_NAMES == <<"I", "O", "T", "S", "Z", "J", "L">>

\* SHAPES[name][i + 1] is rotation i: the (row, col) offsets in source order.
SHAPES ==
    [I |-> << << <<0, 0>>, <<0, 1>>, <<0, 2>>, <<0, 3>> >>,
              << <<0, 0>>, <<1, 0>>, <<2, 0>>, <<3, 0>> >> >>,
     O |-> << << <<0, 0>>, <<0, 1>>, <<1, 0>>, <<1, 1>> >> >>,
     T |-> << << <<0, 0>>, <<0, 1>>, <<0, 2>>, <<1, 1>> >>,
              << <<0, 0>>, <<1, 0>>, <<2, 0>>, <<1, 1>> >>,
              << <<1, 0>>, <<1, 1>>, <<1, 2>>, <<0, 1>> >>,
              << <<0, 0>>, <<1, 0>>, <<2, 0>>, <<1, -1>> >> >>,
     S |-> << << <<0, 1>>, <<0, 2>>, <<1, 0>>, <<1, 1>> >>,
              << <<0, 0>>, <<1, 0>>, <<1, 1>>, <<2, 1>> >> >>,
     Z |-> << << <<0, 0>>, <<0, 1>>, <<1, 1>>, <<1, 2>> >>,
              << <<0, 1>>, <<1, 0>>, <<1, 1>>, <<2, 0>> >> >>,
     J |-> << << <<0, 0>>, <<1, 0>>, <<1, 1>>, <<1, 2>> >>,
              << <<0, 0>>, <<0, 1>>, <<1, 0>>, <<2, 0>> >>,
              << <<0, 0>>, <<0, 1>>, <<0, 2>>, <<1, 2>> >>,
              << <<0, 0>>, <<1, 0>>, <<2, 0>>, <<2, -1>> >> >>,
     L |-> << << <<0, 2>>, <<1, 0>>, <<1, 1>>, <<1, 2>> >>,
              << <<0, 0>>, <<1, 0>>, <<2, 0>>, <<2, 1>> >>,
              << <<0, 0>>, <<0, 1>>, <<0, 2>>, <<1, 0>> >>,
              << <<0, 0>>, <<0, 1>>, <<1, 1>>, <<2, 1>> >> >>]

\* LINE_SCORES.get(cleared, 0)
LINE_SCORES(cleared) ==
    CASE cleared = 0 -> 0
      [] cleared = 1 -> 100
      [] cleared = 2 -> 300
      [] cleared = 3 -> 500
      [] cleared = 4 -> 800
      [] OTHER -> 0

\* ------------------------------------------------------------------------
\* Piece (tetris.py 170-199)
\* ------------------------------------------------------------------------

\* Piece.__init__: rotation 0, anchored at the top centre.
Piece(name) ==
    [name |-> name, rot_index |-> 0, row |-> 0, col |-> (COLS \div 2) - 1]

\* piece.rotations
rotations(piece) == SHAPES[piece.name]

\* Piece.cells: the absolute (row, col) of each block, in source order.
cells(piece) ==
    LET offs == rotations(piece)[piece.rot_index + 1]
    IN  [i \in 1..Len(offs) |-> <<piece.row + offs[i][1], piece.col + offs[i][2]>>]

\* Piece.rotated_cells: the cells after a rotation, the piece left as it is.
rotated_cells(piece, direction) ==
    LET idx  == (piece.rot_index + direction) % Len(rotations(piece))
        offs == rotations(piece)[idx + 1]
    IN  [i \in 1..Len(offs) |-> <<piece.row + offs[i][1], piece.col + offs[i][2]>>]

\* Piece.rotate with a remainder that takes the sign of the dividend.
rotate_piece_truncating(piece, direction) ==
    LET sum == piece.rot_index + direction
        n   == Len(rotations(piece))
    IN  [piece EXCEPT !.rot_index = IF sum < 0 THEN 0 - ((0 - sum) % n) ELSE sum % n]

\* Piece.rotate
rotate_piece(piece, direction) ==
    [piece EXCEPT !.rot_index = (piece.rot_index + direction) % Len(rotations(piece))]

\* ------------------------------------------------------------------------
\* Board helpers (tetris.py 207-236)
\* ------------------------------------------------------------------------

empty_row == [c \in 0..(COLS - 1) |-> None]

empty_board == [r \in 0..(ROWS - 1) |-> empty_row]

\* is_valid: every cell inside the grid and empty.
is_valid(board, cs) ==
    \A i \in 1..Len(cs) :
        LET r == cs[i][1]
            c == cs[i][2]
        IN  /\ ~(r < 0 \/ r >= ROWS \/ c < 0 \/ c >= COLS)
            /\ board[r][c] = None

RECURSIVE lock_loop(_, _, _, _)
\* The for loop of lock_piece, from the i-th cell on.
lock_loop(board, cs, name, i) ==
    IF i > Len(cs)
    THEN board
    ELSE LET r == cs[i][1]
             c == cs[i][2]
         IN  lock_loop(IF 0 <= r /\ r < ROWS /\ 0 <= c /\ c < COLS
                       THEN [board EXCEPT ![r][c] = name]
                       ELSE board,
                       cs, name, i + 1)

\* lock_piece writing the cells after the first one only.
lock_piece_from_second(board, piece) == lock_loop(board, cells(piece), piece.name, 2)

\* lock_piece: write the piece's name into each of its in-bounds cells.
lock_piece(board, piece) == lock_loop(board, cells(piece), piece.name, 1)

\* all(cell is not None for cell in board[r])
row_full(board, r) == \A c \in 0..(COLS - 1) : board[r][c] # None

\* del board[r]; board.insert(0, [None] * COLS)
delete_row(board, r) ==
    [i \in 0..(ROWS - 1) |->
        IF i = 0 THEN empty_row
        ELSE IF i <= r THEN board[i - 1]
        ELSE board[i]]

RECURSIVE clear_loop(_, _, _)
\* clear_loop moving on to the row above after it deleted a full row.
clear_loop_skipping(board, r, cleared) ==
    IF r < 0
    THEN [board |-> board, result |-> cleared]
    ELSE IF row_full(board, r)
         THEN clear_loop(delete_row(board, r), r - 1, cleared + 1)
         ELSE clear_loop(board, r - 1, cleared)

\* The while loop of clear_lines, from row r upwards with `cleared` so far.
clear_loop(board, r, cleared) ==
    IF r < 0
    THEN [board |-> board, result |-> cleared]
    ELSE IF row_full(board, r)
         THEN clear_loop(delete_row(board, r), r, cleared + 1)
         ELSE clear_loop(board, r - 1, cleared)

\* clear_lines starting its scan one row above the bottom row.
clear_lines_above_floor(board) == clear_loop(board, ROWS - 2, 0)

\* clear_lines: the board after the call and the number of rows cleared.
clear_lines(board) == clear_loop(board, ROWS - 1, 0)

\* ------------------------------------------------------------------------
\* Bounds of the exploration
\* ------------------------------------------------------------------------

\* How many outcomes of random.shuffle are explored.
MaxShuffles == 2

\* A session is followed until this many pieces have been locked since the
\* game was constructed or restarted.
MaxLocks == 1

\* Soft drops and gravity are followed while the piece's anchor is in rows
\* 0..MaxFall; a hard drop is followed from any of these rows.
MaxFall == 1

\* Outcomes of random.shuffle(PIECE_NAMES[:]); a bag is popped from its end.
ShuffleOutcomes ==
    << <<"T", "S", "Z", "J", "L", "I", "O">>,
       <<"T", "S", "Z", "J", "L", "O", "I">>,
       <<"J", "T", "I", "L", "Z", "O", "S">>,
       <<"L", "J", "T", "I", "S", "O", "Z">> >>

\* The shuffle outcomes explored.
Shuffles ==
    { ShuffleOutcomes[k] :
        k \in 1..(IF MaxShuffles < Len(ShuffleOutcomes)
                  THEN MaxShuffles ELSE Len(ShuffleOutcomes)) }

\* Frame times (ms) explored: below every drop interval's first threshold,
\* and above several intervals at once.
DTs == {400, 2000}

\* ------------------------------------------------------------------------
\* Game (tetris.py 376-468)
\* ------------------------------------------------------------------------

\* Game._refill_bag: a fresh copy of PIECE_NAMES, shuffled (perm).
_refill_bag(self, perm) == [self EXCEPT !.bag = perm]

\* _new_piece reading the last name of the bag (bag[-1]) without removing it.
_new_piece_keeping_name(self, perm) ==
    LET s1 == IF self.bag = <<>> THEN _refill_bag(self, perm) ELSE self
    IN  [self |-> s1, result |-> Piece(s1.bag[Len(s1.bag)])]

\* _new_piece refilling the bag when one name is left in it.
_new_piece_refilling_early(self, perm) ==
    LET s1 == IF Len(self.bag) <= 1 THEN _refill_bag(self, perm) ELSE self
        n  == Len(s1.bag)
    IN  [self   |-> [s1 EXCEPT !.bag = SubSeq(s1.bag, 1, n - 1)],
         result |-> Piece(s1.bag[n])]

\* Game._new_piece: refill an empty bag, then pop its last name.
_new_piece(self, perm) ==
    LET s1 == IF self.bag = <<>> THEN _refill_bag(self, perm) ELSE self
        n  == Len(s1.bag)
    IN  [self   |-> [s1 EXCEPT !.bag = SubSeq(s1.bag, 1, n - 1)],
         result |-> Piece(s1.bag[n])]

\* _calc_interval adding the 70 ms per level instead of taking them off.
_calc_interval_slowing(self) ==
    LET v == 800 + (self.level - 1) * 70
    IN  IF 100 >= v THEN 100 ELSE v

\* Game._calc_interval
_calc_interval(self) ==
    LET v == 800 - (self.level - 1) * 70
    IN  IF 100 >= v THEN 100 ELSE v

\* Game.__init__ (perm: the outcome of the first shuffle).
Game(perm) ==
    LET s0 == [board |-> empty_board, score |-> 0, lines |-> 0, level |-> 1,
               bag |-> <<>>]
        d1 == _new_piece(s0, perm)
        d2 == _new_piece(d1.self, perm)
        s1 == [board |-> s0.board, score |-> s0.score, lines |-> s0.lines,
               level |-> s0.level, bag |-> d2.self.bag,
               current |-> d1.result, next |-> d2.result,
               game_over |-> FALSE, paused |-> FALSE,
               drop_interval |-> 0, drop_timer |-> 0]
    IN  [s1 EXCEPT !.drop_interval = _calc_interval(s1)]

\* spawn_next without the test of the spawn cells.
spawn_next_unchecked(self, perm) ==
    LET d == _new_piece(self, perm)
    IN  [d.self EXCEPT !.current = self.next, !.next = d.result]

\* spawn_next assigning the outcome of the test to game_over, whatever it was.
spawn_next_assigning(self, perm) ==
    LET d  == _new_piece(self, perm)
        s1 == [d.self EXCEPT !.current = self.next, !.next = d.result]
    IN  [s1 EXCEPT !.game_over = ~is_valid(s1.board, cells(s1.current))]

\* Game.spawn_next
spawn_next(self, perm) ==
    LET d  == _new_piece(self, perm)
        s1 == [d.self EXCEPT !.current = self.next, !.next = d.result]
    IN  IF ~is_valid(s1.board, cells(s1.current))
        THEN [s1 EXCEPT !.game_over = TRUE]
        ELSE s1

\* Game.move testing the translated cells against the grid only, not against
\* the cells locked in it.
move_through_stack(self, dr, dc) ==
    LET new_cells == [i \in 1..Len(cells(self.current)) |->
                        <<cells(self.current)[i][1] + dr, cells(self.current)[i][2] + dc>>]
    IN  IF is_valid(empty_board, new_cells)
        THEN [self |-> [self EXCEPT !.current.row = @ + dr, !.current.col = @ + dc],
              result |-> TRUE]
        ELSE [self |-> self, result |-> FALSE]

\* Game.move
move(self, dr, dc) ==
    LET cs        == cells(self.current)
        new_cells == [i \in 1..Len(cs) |-> <<cs[i][1] + dr, cs[i][2] + dc>>]
    IN  IF is_valid(self.board, new_cells)
        THEN [self   |-> [self EXCEPT !.current.row = @ + dr,
                                      !.current.col = @ + dc],
              result |-> TRUE]
        ELSE [self |-> self, result |-> FALSE]

\* The wall-kick offsets of Game.rotate, in the order they are tried.
kick_offsets_left_first == <<-1, 1, -2, 2>>

kick_offsets == <<1, -1, 2, -2>>

RECURSIVE kick_loop(_, _, _, _)
\* The for loop of Game.rotate, from the i-th offset on.
kick_loop(self, direction, new_cells, i) ==
    IF i > Len(kick_offsets)
    THEN self
    ELSE LET offset == kick_offsets[i]
             kicked == [j \in 1..Len(new_cells) |->
                           <<new_cells[j][1], new_cells[j][2] + offset>>]
         IN  IF is_valid(self.board, kicked)
             THEN [self EXCEPT
                      !.current = [rotate_piece(self.current, direction)
                                      EXCEPT !.col = @ + offset]]
             ELSE kick_loop(self, direction, new_cells, i + 1)

\* rotate turning the piece without testing the cells it turns into.
rotate_unchecked(self, direction) ==
    [self EXCEPT !.current = rotate_piece(self.current, direction)]

\* Game.rotate
rotate(self, direction) ==
    LET new_cells == rotated_cells(self.current, direction)
    IN  IF is_valid(self.board, new_cells)
        THEN [self EXCEPT !.current = rotate_piece(self.current, direction)]
        ELSE kick_loop(self, direction, new_cells, 1)

\* _lock_and_clear with the level recomputed before the score is awarded.
_lock_and_clear_relevel(self, perm) ==
    LET locked  == lock_piece(self.board, self.current)
        cl      == clear_lines(locked)
        cleared == cl.result
        s1 == [self EXCEPT !.board = cl.board]
        s2 == [s1 EXCEPT !.lines = @ + cleared]
        s3 == [s2 EXCEPT !.level = (s2.lines \div 10) + 1]
        s4 == [s3 EXCEPT !.score = @ + LINE_SCORES(cleared) * s3.level]
        s5 == [s4 EXCEPT !.drop_interval = _calc_interval(s4)]
    IN  spawn_next(s5, perm)

\* _lock_and_clear with the level taken from the line count before the clear.
_lock_and_clear_stale_level(self, perm) ==
    LET locked  == lock_piece(self.board, self.current)
        cl      == clear_lines(locked)
        cleared == cl.result
        s1 == [self EXCEPT !.board = cl.board]
        s2 == [s1 EXCEPT !.lines = @ + cleared]
        s3 == [s2 EXCEPT !.score = @ + LINE_SCORES(cleared) * s2.level]
        s4 == [s3 EXCEPT !.level = (self.lines \div 10) + 1]
        s5 == [s4 EXCEPT !.drop_interval = _calc_interval(s4)]
    IN  spawn_next(s5, perm)

\* Game._lock_and_clear
_lock_and_clear(self, perm) ==
    LET locked  == lock_piece(self.board, self.current)
        cl      == clear_lines(locked)
        cleared == cl.result
        s1 == [self EXCEPT !.board = cl.board]
        s2 == [s1 EXCEPT !.lines = @ + cleared]
        s3 == [s2 EXCEPT !.score = @ + LINE_SCORES(cleared) * s2.level]
        s4 == [s3 EXCEPT !.level = (s3.lines \div 10) + 1]
        s5 == [s4 EXCEPT !.drop_interval = _calc_interval(s4)]
    IN  spawn_next(s5, perm)

RECURSIVE hard_drop_loop(_)
\* hard_drop_loop adding one point per row.
hard_drop_loop_one_point(self) ==
    LET m == move(self, 1, 0)
    IN  IF m.result
        THEN hard_drop_loop([m.self EXCEPT !.score = @ + 1])
        ELSE self

\* The while loop of Game.hard_drop.
hard_drop_loop(self) ==
    LET m == move(self, 1, 0)
    IN  IF m.result
        THEN hard_drop_loop([m.self EXCEPT !.score = @ + 2])
        ELSE self

\* hard_drop locking the piece when it has descended one row at most.
hard_drop_one_row(self, perm) ==
    LET m == move(self, 1, 0)
    IN  _lock_and_clear(IF m.result THEN [m.self EXCEPT !.score = @ + 2] ELSE self,
                        perm)

\* Game.hard_drop
hard_drop(self, perm) == _lock_and_clear(hard_drop_loop(self), perm)

\* soft_drop adding its point whether or not the piece moved.
soft_drop_always_scoring(self) ==
    LET m == move(self, 1, 0)
    IN  [self |-> [m.self EXCEPT !.score = @ + 1], result |-> m.result]

\* Game.soft_drop
soft_drop(self) ==
    LET m == move(self, 1, 0)
    IN  IF m.result
        THEN [self |-> [m.self EXCEPT !.score = @ + 1], result |-> TRUE]
        ELSE [self |-> self, result |-> FALSE]

\* tick taking the interval off the timer instead of resetting it.
tick_carrying_timer(self, dt, perm) ==
    IF self.game_over \/ self.paused
    THEN self
    ELSE LET s1 == [self EXCEPT !.drop_timer = @ + dt]
         IN  IF s1.drop_timer >= s1.drop_interval
             THEN LET s2 == [s1 EXCEPT !.drop_timer = @ - s1.drop_interval]
                      m  == move(s2, 1, 0)
                  IN  IF ~m.result THEN _lock_and_clear(s2, perm) ELSE m.self
             ELSE s1

\* tick returning at once only when the game is over, not when it is paused.
tick_while_paused(self, dt, perm) ==
    IF self.game_over
    THEN self
    ELSE LET s1 == [self EXCEPT !.drop_timer = @ + dt]
         IN  IF s1.drop_timer >= s1.drop_interval
             THEN LET s2 == [s1 EXCEPT !.drop_timer = 0]
                      m  == move(s2, 1, 0)
                  IN  IF ~m.result THEN _lock_and_clear(s2, perm) ELSE m.self
             ELSE s1

\* Game.tick
tick(self, dt, perm) ==
    IF self.game_over \/ self.paused
    THEN self
    ELSE LET s1 == [self EXCEPT !.drop_timer = @ + dt]
         IN  IF s1.drop_timer >= s1.drop_interval
             THEN LET s2 == [s1 EXCEPT !.drop_timer = 0]
                      m  == move(s2, 1, 0)
                  IN  IF ~m.result THEN _lock_and_clear(s2, perm) ELSE m.self
             ELSE s1

\* restart leaving the score as it is.
restart_keeping_score(self, perm) == [Game(perm) EXCEPT !.score = self.score]

\* Game.restart
restart(self, perm) == Game(perm)

\* ------------------------------------------------------------------------
\* main (tetris.py 476-557): the state and the two kinds of step
\* ------------------------------------------------------------------------

\* The fields of the Game object; the number of pieces locked since the game
\* was constructed or restarted (what MaxLocks bounds); whether the game was
\* restarted since the initial state; what is recorded of the stream of names
\* dealt by _new_piece when it is followed on its own (see SpecBag).
VARIABLES board, score, lines, level, bag, current, next, game_over, paused,
          drop_interval, drop_timer, locked, restarted, stream

vars == <<board, score, lines, level, bag, current, next, game_over, paused,
          drop_interval, drop_timer, locked, restarted, stream>>

\* The stream of names is not recorded.
no_stream == [dealt |-> <<>>, watch |-> None, absent |-> 0]

\* The Game object.
game ==
    [board |-> board, score |-> score, lines |-> lines, level |-> level,
     bag |-> bag, current |-> current, next |-> next,
     game_over |-> game_over, paused |-> paused,
     drop_interval |-> drop_interval, drop_timer |-> drop_timer]

\* The Game object is g.
Is(g) ==
    /\ board = g.board
    /\ score = g.score
    /\ lines = g.lines
    /\ level = g.level
    /\ bag = g.bag
    /\ current = g.current
    /\ next = g.next
    /\ game_over = g.game_over
    /\ paused = g.paused
    /\ drop_interval = g.drop_interval
    /\ drop_timer = g.drop_timer

\* The Game object becomes g.
Become(g) ==
    /\ board' = g.board
    /\ score' = g.score
    /\ lines' = g.lines
    /\ level' = g.level
    /\ bag' = g.bag
    /\ current' = g.current
    /\ next' = g.next
    /\ game_over' = g.game_over
    /\ paused' = g.paused
    /\ drop_interval' = g.drop_interval
    /\ drop_timer' = g.drop_timer

\* pygame key codes.
Keys == {"K_r", "K_p", "K_LEFT", "K_RIGHT", "K_DOWN", "K_UP", "K_SPACE"}

\* The keys main() auto-repeats, in the order it visits them.
repeat_keys == <<"K_LEFT", "K_RIGHT", "K_DOWN">>

\* The KEYDOWN branch of the event loop (496-521).
on_keydown(self, key, perm) ==
    IF key = "K_r" THEN restart(self, perm)
    ELSE IF self.game_over THEN self
    ELSE IF key = "K_p" THEN [self EXCEPT !.paused = ~self.paused]
    ELSE IF self.paused THEN self
    ELSE IF key = "K_LEFT" THEN move(self, 0, -1).self
    ELSE IF key = "K_RIGHT" THEN move(self, 0, 1).self
    ELSE IF key = "K_DOWN" THEN soft_drop(self).self
    ELSE IF key = "K_UP" THEN rotate(self, 1)
    ELSE IF key = "K_SPACE" THEN hard_drop(self, perm)
    ELSE self

\* One held key's repeat (534-539).
repeat_key(self, key) ==
    IF key = "K_LEFT" THEN move(self, 0, -1).self
    ELSE IF key = "K_RIGHT" THEN move(self, 0, 1).self
    ELSE IF key = "K_DOWN" THEN soft_drop(self).self
    ELSE self

RECURSIVE repeat_loop(_, _, _)
\* The for loop over the repeat keys (528-539), from the i-th key on.  `due`
\* is the set of keys that are held and whose repeat falls in this frame: the
\* test on held_keys, move_delay, move_repeat and dt (529-533).
repeat_loop(self, due, i) ==
    IF i > Len(repeat_keys)
    THEN self
    ELSE repeat_loop(IF repeat_keys[i] \in due
                     THEN repeat_key(self, repeat_keys[i])
                     ELSE self,
                     due, i + 1)

\* Auto-repeat for held keys (527-539).
auto_repeat(self, due) ==
    IF ~self.game_over /\ ~self.paused THEN repeat_loop(self, due, 1) ELSE self

\* The rest of a loop iteration after its events: auto-repeat, then tick.
on_frame(self, dt, due, perm) == tick(auto_repeat(self, due), dt, perm)

\* A piece was drawn between g and g2: _new_piece always changes the bag.
Drew(g, g2) == g2.bag # g.bag

\* The exploration follows a running game through a step to g2 while fewer
\* than MaxLocks pieces have been locked and the piece stays in the rows
\* followed.  A restarted game is a new game, whose steps are those of Spec:
\* it is not followed again.  Steps of a paused or finished game are always
\* followed.
Followed(g2) ==
    \/ game_over
    \/ paused
    \/ locked < MaxLocks /\ ~restarted /\ g2.current.row <= MaxFall

\* The shuffle outcomes a step can observe: one if it cannot shuffle.
ShufflesIf(may_shuffle) ==
    IF may_shuffle THEN Shuffles ELSE {ShuffleOutcomes[1]}

Init ==
    /\ \E perm \in Shuffles : Is(Game(perm))
    /\ locked = 0
    /\ restarted = FALSE
    /\ stream = no_stream

\* One KEYDOWN event.
KeyDown(key) ==
    \E perm \in ShufflesIf(key = "K_r" \/ bag = <<>>) :
      \E g2 \in {on_keydown(game, key, perm)} :
        /\ key \in {"K_r", "K_p"} \/ Followed(g2)
        /\ Become(g2)
        /\ locked' = IF key = "K_r" THEN 0
                     ELSE IF Drew(game, g2) THEN locked + 1 ELSE locked
        /\ restarted' = (restarted \/ key = "K_r")
        /\ UNCHANGED stream

\* The end of a loop iteration that took dt ms, in which the repeats of the
\* keys in `due` fell.
Frame(dt, due) ==
    \E perm \in ShufflesIf(bag = <<>>) :
      \E g2 \in {on_frame(game, dt, due, perm)} :
        /\ Followed(g2)
        /\ Become(g2)
        /\ locked' = IF Drew(game, g2) THEN locked + 1 ELSE locked
        /\ UNCHANGED <<restarted, stream>>

Next ==
    \/ \E key \in Keys : KeyDown(key)
    \/ \E dt \in DTs, due \in SUBSET {"K_LEFT", "K_RIGHT", "K_DOWN"} : Frame(dt, due)

Spec == Init /\ [][Next]_vars

\* ------------------------------------------------------------------------
\* Games in progress
\* ------------------------------------------------------------------------

\* A row of the stack: locked cells everywhere but in the columns `holes`.
stack_row(holes) ==
    [c \in 0..(COLS - 1) |->
        IF c \in holes THEN None ELSE PIECE_NAMES[(c % Len(PIECE_NAMES)) + 1]]

\* A stack that fills rows 2..ROWS-1 but for the wells (empty columns) and
\* the further holes extra[1..4] of the four bottom rows: the two spawn rows
\* are free.
tall_board(wells, extra) ==
    [r \in 0..(ROWS - 1) |->
        IF r < 2 THEN empty_row
        ELSE IF r < ROWS - 4 THEN stack_row(wells)
        ELSE stack_row(wells \cup extra[r - (ROWS - 4) + 1])]

\* The score of a game that cleared n lines one at a time and never dropped:
\* ten lines at each of the levels 1..q, then r lines at level q + 1, each
\* worth LINE_SCORES(1) times the level.
score_of_singles(n) ==
    LET q == n \div 10
        r == n % 10
    IN  LINE_SCORES(1) * (10 * ((q * (q + 1)) \div 2) + r * (q + 1))

\* A game in progress: the board, the lines cleared so far, the shuffle the
\* bag came from and how many of its names are still in the bag (at most 5:
\* next and current were drawn last).
in_progress(b, n, perm, left) ==
    LET s0 == [board |-> b, score |-> score_of_singles(n), lines |-> n,
               level |-> (n \div 10) + 1,
               bag |-> SubSeq(perm, 1, left),
               current |-> Piece(perm[left + 2]), next |-> Piece(perm[left + 1]),
               game_over |-> FALSE, paused |-> FALSE,
               drop_interval |-> 0, drop_timer |-> 0]
    IN  [s0 EXCEPT !.drop_interval = _calc_interval(s0)]

\* A stack that reaches the top: the spawn rows are free only in columns 4
\* to 6 (row 0) and 4, 5 and 9 (row 1).  The O piece can only be locked where
\* it spawned, where it blocks the next piece.
crowded_board ==
    [r \in 0..(ROWS - 1) |->
        IF r = 0 THEN stack_row({4, 5, 6})
        ELSE IF r = 1 THEN stack_row({4, 5, 9})
        ELSE stack_row({9})]

\* The games in progress explored.  In each the I piece (or, with the bag
\* used up, the T piece) has just spawned above a tall stack.  Dropped into
\* the well of column 5 the I piece completes 4, 4, 2 (rows 16 and 19), 3
\* and 1 rows; with wells in columns 4 and 6 it completes none.  In the last
\* game but one every row was cleared: the I piece falls ROWS - 1 rows.  In
\* the last the O piece spawned into a stack that reaches the top, before S
\* and I.
Scenarios ==
    { in_progress(tall_board({5}, <<{}, {}, {}, {}>>), 9, ShuffleOutcomes[2], 5),
      in_progress(tall_board({5}, <<{}, {}, {}, {}>>), 19, ShuffleOutcomes[2], 5),
      in_progress(tall_board({5}, <<{}, {9}, {9}, {}>>), 22, ShuffleOutcomes[2], 5),
      in_progress(tall_board({5}, <<{8, 9}, {}, {}, {}>>), 118, ShuffleOutcomes[2], 5),
      in_progress(tall_board({5}, <<{9}, {9}, {8, 9}, {}>>), 9, ShuffleOutcomes[2], 5),
      in_progress(tall_board({4, 6}, <<{}, {}, {}, {}>>), 4, ShuffleOutcomes[2], 5),
      in_progress(tall_board({5}, <<{}, {9}, {9}, {}>>), 0, ShuffleOutcomes[3], 0),
      in_progress(empty_board, 40, ShuffleOutcomes[2], 5),
      in_progress(crowded_board, 2, ShuffleOutcomes[4], 4) }

InitMid ==
    /\ \E g \in Scenarios : Is(g)
    /\ locked = 0
    /\ restarted = FALSE
    /\ stream = no_stream

SpecMid == InitMid /\ [][Next]_vars

\* ------------------------------------------------------------------------
\* clear_lines on its own
\* ------------------------------------------------------------------------

\* The tallest stack of rows given to clear_lines.
MaxStack == 4

\* The j-th row of a stack, of kind 1 (full), 2 (one hole, in column j) or
\* 3 (holes in columns j and COLS - 1): a row that is not full tells its
\* place in the stack.
marked_row(j, kind) ==
    IF kind = 1 THEN stack_row({})
    ELSE IF kind = 2 THEN stack_row({j})
    ELSE stack_row({j, COLS - 1})

\* A stack of rows of the given kinds (top row first) resting on the floor
\* under empty rows, or (hung) filling the top rows of a board whose other
\* rows all have one hole.
stack_board(kinds, hung) ==
    LET h == Len(kinds)
    IN  [r \in 0..(ROWS - 1) |->
            IF hung
            THEN IF r < h THEN marked_row(r + 1, kinds[r + 1])
                 ELSE stack_row({0})
            ELSE IF r < ROWS - h THEN empty_row
                 ELSE marked_row(r - (ROWS - h) + 1, kinds[r - (ROWS - h) + 1])]

\* The boards given to clear_lines: the stacks of at most MaxStack rows, the
\* board of full rows, and the board whose every other row is full.
ClearBoards ==
    { stack_board(kinds, hung) :
        kinds \in UNION { [1..h -> 1..3] : h \in 0..MaxStack },
        hung \in BOOLEAN }
    \cup { stack_board([j \in 1..ROWS |-> 1], FALSE),
           stack_board([j \in 1..ROWS |-> IF j % 2 = 0 THEN 1 ELSE 3], FALSE) }

\* A game whose board is one of ClearBoards.
InitClear ==
    /\ \E b \in ClearBoards : Is([Game(ShuffleOutcomes[1]) EXCEPT !.board = b])
    /\ locked = 0
    /\ restarted = FALSE
    /\ stream = no_stream

\* clear_lines(board): the board is cleared in place and the count returned
\* is added to lines, as _lock_and_clear does (449-450).
ClearLines ==
    \E cl \in {clear_lines(board)} :
        /\ board' = cl.board
        /\ lines' = lines + cl.result
        /\ UNCHANGED <<score, level, bag, current, next, game_over, paused,
                       drop_interval, drop_timer, locked, restarted, stream>>

NextClear == ClearLines

SpecClear == InitClear /\ [][NextClear]_vars

\* ------------------------------------------------------------------------
\* _new_piece on its own
\* ------------------------------------------------------------------------

\* The names held by a sequence of piece names.
Names(seq) == { seq[i] : i \in 1..Len(seq) }

\* The seven kinds.
Kinds == Names(PIECE_NAMES)

\* Every outcome of random.shuffle(PIECE_NAMES[:]): PIECE_NAMES in any order.
AllShuffles ==
    { [i \in 1..Len(PIECE_NAMES) |-> f[PIECE_NAMES[i]]] : f \in Permutations(Kinds) }

\* The stream before the first draw.  dealt[k] counts the draws of the kind k
\* among the draws 7j+1..7j+7 under way; absent counts the draws made since
\* the kind watched was last drawn (or since the first draw).
stream_start(kind) ==
    [dealt |-> [k \in Kinds |-> 0], watch |-> kind, absent |-> 0]

\* How many names were dealt of the seven under way.
Dealt(st) ==
    LET RECURSIVE sum(_)
        sum(i) == IF i = 0 THEN 0 ELSE st.dealt[PIECE_NAMES[i]] + sum(i - 1)
    IN  sum(Len(PIECE_NAMES))

\* The stream after the name `name` is dealt.
stream_after(st, name) ==
    [dealt  |-> IF Dealt(st) = Len(PIECE_NAMES)
                THEN [k \in Kinds |-> IF k = name THEN 1 ELSE 0]
                ELSE [st.dealt EXCEPT ![name] = @ + 1],
     watch  |-> st.watch,
     absent |-> IF name = st.watch THEN 0 ELSE st.absent + 1]

\* The Game object at line 381 of __init__, its bag just set to []: no name
\* was drawn yet.  One kind is watched.
InitBag ==
    /\ Is([Game(ShuffleOutcomes[1]) EXCEPT !.bag = <<>>])
    /\ locked = 0
    /\ restarted = FALSE
    /\ \E kind \in Kinds : stream = stream_start(kind)

\* One call of _new_piece, as in __init__ (382-383) and spawn_next (411);
\* the piece it returns becomes `next`.
Draw ==
    \E perm \in IF bag = <<>> THEN AllShuffles ELSE {ShuffleOutcomes[1]} :
        \E d \in {_new_piece(game, perm)} :
            /\ bag' = d.self.bag
            /\ next' = d.result
            /\ stream' = stream_after(stream, d.result.name)
            /\ UNCHANGED <<board, score, lines, level, current, game_over, paused,
                           drop_interval, drop_timer, locked, restarted>>

NextBag == Draw

SpecBag == InitBag /\ [][NextBag]_vars

\* ------------------------------------------------------------------------
\* Piece on its own
\* ------------------------------------------------------------------------

\* The directions of a rotation.
Directions == {1, -1}

\* A piece of the kind `name` as constructed, then placed at (row, col).
piece_at(name, row, col) == [Piece(name) EXCEPT !.row = row, !.col = col]

\* The pieces rotated: every kind, as constructed (rot_index 0), in the spawn
\* column or next to it, in one of the first rows.
Pieces ==
    { piece_at(name, row, (COLS \div 2) - 1 + dc) :
        name \in Kinds, row \in 0..(MaxFall + 1), dc \in Directions \cup {0} }

\* A game whose current piece is one of Pieces.
InitPiece ==
    /\ \E piece \in Pieces : Is([Game(ShuffleOutcomes[1]) EXCEPT !.current = piece])
    /\ locked = 0
    /\ restarted = FALSE
    /\ stream = no_stream

\* self.current.rotate(direction), in either direction.
RotatePiece ==
    \E direction \in Directions :
        /\ current' = rotate_piece(current, direction)
        /\ UNCHANGED <<board, score, lines, level, bag, next, game_over, paused,
                       drop_interval, drop_timer, locked, restarted, stream>>

NextPiece == RotatePiece

SpecPiece == InitPiece /\ [][NextPiece]_vars

\* ------------------------------------------------------------------------
\* Vocabulary of the properties
\* ------------------------------------------------------------------------

\* The fields of the Game object.
engine == <<board, score, lines, level, bag, current, next, game_over, paused,
            drop_interval, drop_timer>>

Running == ~game_over /\ ~paused

\* The keys that command the falling piece.
PieceKeys == {"K_LEFT", "K_RIGHT", "K_DOWN", "K_UP", "K_SPACE"}

DueSets == SUBSET {"K_LEFT", "K_RIGHT", "K_DOWN"}

\* The shuffle outcomes a command given in this state can observe.
Perms == ShufflesIf(bag = <<>>)

\* The set of cells of a piece of the kind `name` in rotation state rot
\* anchored at (row, col).
CellsAt(name, rot, row, col) ==
    { <<row + SHAPES[name][rot + 1][i][1], col + SHAPES[name][rot + 1][i][2]>> :
        i \in 1..Len(SHAPES[name][rot + 1]) }

\* Every cell of cs lies in the grid b and is empty there.
AllFree(b, cs) ==
    \A cell \in cs :
        /\ cell[1] \in 0..(ROWS - 1)
        /\ cell[2] \in 0..(COLS - 1)
        /\ b[cell[1]][cell[2]] = None

\* The cells of the current piece moved d rows down.
Lowered(d) ==
    CellsAt(current.name, current.rot_index, current.row + d, current.col)

\* How far the current piece can fall: the position one row below the last
\* is not free and every position on the way down is.
DropDistance ==
    CHOOSE d \in 0..ROWS :
        /\ ~AllFree(board, Lowered(d + 1))
        /\ \A j \in 0..d : AllFree(board, Lowered(j))

\* The points of the table for n lines cleared at once.
Award(n) ==
    CASE n = 0 -> 0
      [] n = 1 -> 100
      [] n = 2 -> 300
      [] n = 3 -> 500
      [] n = 4 -> 800

\* ------------------------------------------------------------------------
\* C1
\* ------------------------------------------------------------------------

\* C1: while the game is over or paused, each of the commands move(dr, dc),
\* rotate(direction), soft_drop() and hard_drop() leaves every field of the
\* game unchanged; restart is accepted and yields a running game with an empty
\* board and zero score.
C1_CommandsNoOpUnlessRunning ==
    (game_over \/ paused) =>
        /\ \A dr \in {-1, 0, 1}, dc \in {-1, 0, 1} : move(game, dr, dc).self = game
        /\ \A direction \in {1, -1} : rotate(game, direction) = game
        /\ soft_drop(game).self = game
        /\ \A perm \in Perms : hard_drop(game, perm) = game
        /\ \A perm \in Shuffles :
              \A g2 \in {restart(game, perm)} :
                  /\ ~g2.game_over /\ ~g2.paused
                  /\ g2.board = [r \in 0..(ROWS - 1) |-> [c \in 0..(COLS - 1) |-> None]]
                  /\ g2.score = 0

\* What holds instead: while the game is over or paused main() calls none of
\* the four commands, neither for a key pressed nor for a key held, and tick
\* returns at once, so that an event or a frame leaves every field of the game
\* unchanged.
KeysIgnoredUnlessRunning ==
    (game_over \/ paused) =>
        /\ \A key \in PieceKeys, perm \in Perms : on_keydown(game, key, perm) = game
        /\ \A dt \in DTs, due \in DueSets, perm \in Perms :
              on_frame(game, dt, due, perm) = game

\* ------------------------------------------------------------------------
\* C2
\* ------------------------------------------------------------------------

\* C2: a game that is not over becomes over in a step exactly when the step
\* locks a piece and promotes the next one, and one of the promoted piece's
\* spawn cells (rotation 0, row 0, column COLS \div 2 - 1) lies outside the grid
\* or is occupied on the board the step leaves; with free spawn cells the game
\* stays not over.
C2_GameOverIffSpawnCollision ==
    [][ ~game_over =>
          LET spawned == locked' = locked + 1
              spawn   == CellsAt(next.name, 0, 0, (COLS \div 2) - 1)
          IN  /\ spawned =>
                    current' = [name |-> next.name, rot_index |-> 0,
                                row |-> 0, col |-> (COLS \div 2) - 1]
              /\ game_over' <=> (spawned /\ ~AllFree(board', spawn)) ]_vars

\* A game that ended with the promoted piece on an occupied cell.
C2_Witness ==
    /\ game_over
    /\ locked = 1
    /\ \E cell \in CellsAt(current.name, 0, 0, (COLS \div 2) - 1) :
          board[cell[1]][cell[2]] # None

\* ------------------------------------------------------------------------
\* C3
\* ------------------------------------------------------------------------

\* C3: a lock that clears n lines (n in 0..4) adds Award(n) times the level in
\* force before the command to the score: after a hard drop on top of the 2
\* points per row fallen, after a lock by gravity (a frame with no repeat due)
\* as the only points.
C3_LineAward ==
    Running =>
        \A perm \in Perms :
            /\ \A g2 \in {on_keydown(game, "K_SPACE", perm)} :
                  /\ g2.lines - lines \in 0..4
                  /\ g2.score = score + 2 * DropDistance
                                      + Award(g2.lines - lines) * level
            /\ \A dt \in DTs :
                  \A g2 \in {on_frame(game, dt, {}, perm)} :
                      Drew(game, g2) =>
                          /\ g2.lines - lines \in 0..4
                          /\ g2.score = score + Award(g2.lines - lines) * level

\* Four lines cleared at level 1 by a hard drop of 16 rows from the spawn row,
\* taking the game from 9 to 13 lines and to level 2: 900 + 800 + 32 points.
C3_Witness ==
    /\ locked = 1
    /\ lines = 13
    /\ level = 2
    /\ score = 900 + 800 + 32

\* ------------------------------------------------------------------------
\* C4
\* ------------------------------------------------------------------------

\* C4: in every state level = lines \div 10 + 1 and drop_interval is the larger of
\* 100 and 800 - (level - 1) * 70; so 23 lines give level 3 and 660 ms, the
\* interval is never below 100 ms and is 100 ms from level 11 on.
C4_LevelAndInterval ==
    /\ level = (lines \div 10) + 1
    /\ \/ drop_interval = 800 - (level - 1) * 70 /\ drop_interval >= 100
       \/ drop_interval = 100 /\ 800 - (level - 1) * 70 < 100
    /\ drop_interval >= 100
    /\ level >= 11 => drop_interval = 100
    /\ lines = 23 => level = 3 /\ drop_interval = 660

\* A game taken from 19 to 23 lines by one lock.
C4_Witness == locked = 1 /\ lines = 23 /\ level = 3 /\ drop_interval = 660

\* ------------------------------------------------------------------------
\* C5
\* ------------------------------------------------------------------------

\* The rows of b that are completely occupied.
FullRows(b) == { r \in 0..(ROWS - 1) : \A c \in 0..(COLS - 1) : b[r][c] # None }

\* The row of b that has exactly i rows that are not full above it, itself
\* not full.
KeptRow(b, i) ==
    CHOOSE r \in (0..(ROWS - 1)) \ FullRows(b) :
        Cardinality({ q \in (0..(ROWS - 1)) \ FullRows(b) : q < r }) = i

\* C5: clear_lines returns the number k of rows that were full; the board keeps
\* ROWS rows of COLS cells, its top k rows are empty, below them come the rows
\* that were not full, unchanged and in their order, and no row is full.
C5_ClearLines ==
    [][ LET k == lines' - lines
        IN  /\ k = Cardinality(FullRows(board))
            /\ DOMAIN board' = 0..(ROWS - 1)
            /\ \A r \in 0..(ROWS - 1) : DOMAIN board'[r] = 0..(COLS - 1)
            /\ \A r \in 0..(k - 1) : \A c \in 0..(COLS - 1) : board'[r][c] = None
            /\ \A i \in 0..(ROWS - k - 1) : board'[k + i] = board[KeptRow(board, i)]
            /\ FullRows(board') = {} ]_vars

\* Two rows cleared that were not adjacent: of a stack of four rows on the
\* floor the second and the third (marked by their holes) are left.
C5_Witness ==
    /\ lines = 2
    /\ board[ROWS - 1] = stack_row({3})
    /\ board[ROWS - 2] = stack_row({2})
    /\ board[ROWS - 3] = empty_row

\* ------------------------------------------------------------------------
\* C6
\* ------------------------------------------------------------------------

\* The grid b with the cells cs holding `name`.
Stamp(b, cs, name) ==
    [r \in 0..(ROWS - 1) |->
        [c \in 0..(COLS - 1) |-> IF <<r, c>> \in cs THEN name ELSE b[r][c]]]

\* The piece promoted from `next`: at the spawn position, rotation 0.
Promoted ==
    [name |-> next.name, rot_index |-> 0, row |-> 0, col |-> (COLS \div 2) - 1]

\* C6: a hard drop of a running game descends some d <= ROWS - 1 rows through
\* free positions; the position one row further is not free (a cell of the
\* piece at d has the floor or an occupied cell directly below it), and the
\* board that is then cleared of full rows is the old board with exactly the
\* cells of the piece at d locked.
C6_HardDropRests ==
    Running =>
        \A perm \in Perms :
            \A g2 \in {on_keydown(game, "K_SPACE", perm)} :
                \E d \in 0..(ROWS - 1) :
                    /\ ~AllFree(board, Lowered(d + 1))
                    /\ \A j \in 0..d : AllFree(board, Lowered(j))
                    /\ \E cell \in Lowered(d) :
                          \/ cell[1] + 1 = ROWS
                          \/ board[cell[1] + 1][cell[2]] # None
                    /\ g2.score - score - Award(g2.lines - lines) * level = 2 * d
                    /\ g2.board = clear_lines(Stamp(board, Lowered(d), current.name)).board
                    /\ g2.current = Promoted

\* The I piece, upright, hard-dropped to the bottom of the well of column 4,
\* where it completes no row.
C6_Witness ==
    /\ locked = 1
    /\ lines = 4
    /\ \A r \in (ROWS - 4)..(ROWS - 1) : board[r][4] = "I"
    /\ board[ROWS - 5][4] = None

\* ------------------------------------------------------------------------
\* C7
\* ------------------------------------------------------------------------

\* C7: a hard drop adds 2 points for each row the piece descends, and the
\* award of the lines the lock clears; the O piece dropped from its spawn
\* position on the empty board descends 18 rows, is locked in rows 18 and 19,
\* columns 4 and 5, clears no line and adds 36 points.
C7_HardDropScore ==
    Running =>
        \A perm \in Perms :
            \A g2 \in {on_keydown(game, "K_SPACE", perm)} :
                /\ g2.score = score + 2 * DropDistance + Award(g2.lines - lines) * level
                /\ ( /\ current = [name |-> "O", rot_index |-> 0, row |-> 0, col |-> 4]
                     /\ \A r \in 0..19 : \A c \in 0..9 : board[r][c] = None )
                   => /\ DropDistance = 18
                      /\ g2.board = Stamp(board, {<<18, 4>>, <<18, 5>>, <<19, 4>>, <<19, 5>>}, "O")
                      /\ g2.lines = lines
                      /\ g2.score = score + 36

\* The O piece locked in the bottom two rows after a hard drop from the spawn
\* position of a new game.
C7_Witness ==
    /\ locked = 1
    /\ score = 36
    /\ lines = 0
    /\ \A r \in 0..(ROWS - 1) : \A c \in 0..(COLS - 1) :
          board[r][c] = IF r \in {18, 19} /\ c \in {4, 5} THEN "O" ELSE None

\* ------------------------------------------------------------------------
\* C8
\* ------------------------------------------------------------------------

\* Translations by at most one row and one column; the program passes left
\* (0, -1), right (0, 1) and down (1, 0) to move.
Translations == {-1, 0, 1} \X {-1, 0, 1}

\* The cells of the current piece translated by (dr, dc).
Translated(dr, dc) ==
    CellsAt(current.name, current.rot_index, current.row + dr, current.col + dc)

\* The game with the anchor of the current piece translated by (dr, dc).
Shifted(dr, dc) ==
    [game EXCEPT !.current = [name |-> current.name, rot_index |-> current.rot_index,
                              row |-> current.row + dr, col |-> current.col + dc]]

\* C8: in a running game move(dr, dc) returns true and translates the anchor,
\* changing nothing else, if every translated cell is in the grid and empty;
\* otherwise it returns false and changes nothing.  A LEFT or RIGHT key is
\* such a move by (0, -1) or (0, 1).
C8_Move ==
    Running =>
        /\ \A t \in Translations :
              IF AllFree(board, Translated(t[1], t[2]))
              THEN move(game, t[1], t[2]) = [self |-> Shifted(t[1], t[2]), result |-> TRUE]
              ELSE move(game, t[1], t[2]) = [self |-> game, result |-> FALSE]
        /\ \A dc \in {-1, 1}, perm \in Perms :
              on_keydown(game, IF dc = -1 THEN "K_LEFT" ELSE "K_RIGHT", perm)
                  = IF AllFree(board, Translated(0, dc)) THEN Shifted(0, dc) ELSE game

\* The I piece, upright in the well of column 5 and moved one row down into
\* it: a move to either side is refused by the stack.
C8_Witness ==
    /\ Running
    /\ locked = 0
    /\ current = [name |-> "I", rot_index |-> 1, row |-> 1, col |-> 5]
    /\ board[2][4] # None
    /\ board[2][6] # None

\* ------------------------------------------------------------------------
\* C9
\* ------------------------------------------------------------------------

\* The column offsets rotate tries, in its order.
TriedOffsets == <<0, 1, -1, 2, -2>>

\* The rotation state `direction` steps after the current one.
RotationBy(direction) == (current.rot_index + direction) % Len(SHAPES[current.name])

\* The places in TriedOffsets whose offset puts the rotated piece on free cells.
ValidTries(direction) ==
    { i \in 1..Len(TriedOffsets) :
        AllFree(board, CellsAt(current.name, RotationBy(direction), current.row,
                               current.col + TriedOffsets[i])) }

\* The game with the piece rotated and shifted by the first offset that puts
\* it on free cells, or the game as it is if there is none.
Rotated(direction) ==
    IF ValidTries(direction) = {}
    THEN game
    ELSE LET first == CHOOSE i \in ValidTries(direction) :
                          \A j \in ValidTries(direction) : i <= j
         IN  [game EXCEPT !.current = [name |-> current.name,
                                       rot_index |-> RotationBy(direction),
                                       row |-> current.row,
                                       col |-> current.col + TriedOffsets[first]]]

\* C9: in a running game rotate(direction) turns the piece to the rotation
\* state `direction` steps on and shifts its column by the first of the
\* offsets 0, +1, -1, +2, -2 that puts the rotated cells on free cells; if
\* none does, the piece is unchanged.  The row, the board, the score and all
\* other fields are unchanged in every case.  The UP key is rotate(1).
C9_RotateKicks ==
    Running =>
        /\ \A direction \in {1, -1} :
              \A g2 \in {rotate(game, direction)} :
                  /\ g2 = Rotated(direction)
                  /\ g2.current.row = current.row
                  /\ g2.board = board
                  /\ g2.score = score
        /\ \A perm \in Perms : on_keydown(game, "K_UP", perm) = Rotated(1)

\* The I piece upright in the well of column 6 of the stack with wells in
\* columns 4 and 6: turned at column 5 it is kicked by +1, not by -1.
C9_Witness ==
    /\ Running
    /\ locked = 0
    /\ lines = 4
    /\ current = [name |-> "I", rot_index |-> 1, row |-> 0, col |-> 6]

\* ------------------------------------------------------------------------
\* C10
\* ------------------------------------------------------------------------

\* The step of tick from the game g to the game g2 when dt ms have passed:
\* below the interval only the timer changes; otherwise the timer is 0 and
\* the piece is one row lower, or, if it cannot be, it is locked where it is,
\* the full rows are cleared and paid for at the level of g, and the next
\* piece is promoted.
TickContract(g, dt, g2) ==
    LET here  == CellsAt(g.current.name, g.current.rot_index, g.current.row, g.current.col)
        below == CellsAt(g.current.name, g.current.rot_index, g.current.row + 1,
                         g.current.col)
    IN  IF g.drop_timer + dt < g.drop_interval
        THEN g2 = [g EXCEPT !.drop_timer = g.drop_timer + dt]
        ELSE IF AllFree(g.board, below)
        THEN g2 = [g EXCEPT !.drop_timer = 0,
                            !.current = [name |-> g.current.name,
                                         rot_index |-> g.current.rot_index,
                                         row |-> g.current.row + 1,
                                         col |-> g.current.col]]
        ELSE /\ g2.drop_timer = 0
             /\ g2.board = clear_lines(Stamp(g.board, here, g.current.name)).board
             /\ g2.lines - g.lines \in 0..4
             /\ g2.score = g.score + Award(g2.lines - g.lines) * g.level
             /\ g2.current = [name |-> g.next.name, rot_index |-> 0, row |-> 0,
                              col |-> (COLS \div 2) - 1]
             /\ g2.paused = g.paused

\* C10: the tick that ends a frame of a running game (after the repeats of
\* the held keys) adds dt to the drop timer; below drop_interval nothing else
\* changes; otherwise the timer is reset to 0 and the piece moves down exactly
\* one row if it can, and if it cannot it is locked in place and lock-and-clear
\* runs, with no points but the award of the lines cleared.
C10_Tick ==
    Running =>
        \A due \in DueSets :
            \A g1 \in {auto_repeat(game, due)} :
                \A dt \in DTs, perm \in Perms :
                    \A g2 \in {on_frame(game, dt, due, perm)} :
                        /\ TickContract(g1, dt, g2)
                        /\ due = {} => g2 = tick(game, dt, perm)

\* A piece lowered one row by gravity alone: no point was added to the score
\* of the lines cleared before.
C10_Witness ==
    /\ Running
    /\ locked = 0
    /\ current.row = 1
    /\ drop_timer = 0
    /\ lines = 9
    /\ score = 900

\* ------------------------------------------------------------------------
\* C11
\* ------------------------------------------------------------------------

\* C11: in every state, running, paused or over, restart (and the R key) yields
\* a running game with an empty board, score 0, lines 0, level 1, drop interval
\* 800 and drop timer 0, whose current and next pieces are at the spawn anchor
\* in rotation 0 and are the last two names of the new shuffle, the first two
\* it deals: two different kinds, the bag holding exactly the other five.
C11_RestartFresh ==
    \A perm \in Shuffles :
        \A g2 \in {restart(game, perm)} :
            /\ on_keydown(game, "K_r", perm) = g2
            /\ \A r \in 0..(ROWS - 1) : \A c \in 0..(COLS - 1) : g2.board[r][c] = None
            /\ g2.score = 0 /\ g2.lines = 0 /\ g2.level = 1
            /\ g2.drop_interval = 800 /\ g2.drop_timer = 0
            /\ ~g2.game_over /\ ~g2.paused
            /\ g2.current = [name |-> perm[7], rot_index |-> 0, row |-> 0, col |-> 4]
            /\ g2.next = [name |-> perm[6], rot_index |-> 0, row |-> 0, col |-> 4]
            /\ g2.current.name # g2.next.name
            /\ g2.bag = SubSeq(perm, 1, 5)
            /\ Len(g2.bag) = 5
            /\ Names(g2.bag) = Kinds \ {g2.current.name, g2.next.name}
            /\ Cardinality(Names(g2.bag)) = 5

\* A game restarted in its course: the new game is running, its board is
\* empty and its counters are zero.
C11_Witness ==
    /\ restarted
    /\ ~game_over
    /\ ~paused
    /\ score = 0
    /\ lines = 0
    /\ \A r \in 0..(ROWS - 1) : \A c \in 0..(COLS - 1) : board[r][c] = None

\* ------------------------------------------------------------------------
\* C12
\* ------------------------------------------------------------------------

\* C12: once the game is over, move, rotate, soft_drop, hard_drop, tick, the
\* pause toggle, and every key but R and every frame of main() leave it over;
\* a step takes the game from over to not over only if it is the R key, which
\* restarts it.
C12_GameOverAbsorbing ==
    [][ game_over =>
          /\ \A perm \in Perms :
                /\ \A t \in Translations : move(game, t[1], t[2]).self.game_over
                /\ \A direction \in {1, -1} : rotate(game, direction).game_over
                /\ soft_drop(game).self.game_over
                /\ hard_drop(game, perm).game_over
                /\ \A dt \in DTs : tick(game, dt, perm).game_over
                /\ [game EXCEPT !.paused = ~paused].game_over
                /\ \A key \in Keys \ {"K_r"} : on_keydown(game, key, perm).game_over
                /\ \A dt \in DTs, due \in DueSets : on_frame(game, dt, due, perm).game_over
          /\ game_over' \/ KeyDown("K_r") ]_vars

\* A game that is over with the S piece on the O piece locked in the spawn
\* cells: locking S there would complete row 0 and free the spawn cells of I.
C12_Witness ==
    /\ game_over
    /\ ~restarted
    /\ current.name = "S"
    /\ next.name = "I"
    /\ board[0][4] = "O"
    /\ board[0][6] = None

\* ------------------------------------------------------------------------
\* C13
\* ------------------------------------------------------------------------

\* Elapsed times passed to tick: those of the frames explored, none, one
\* millisecond and a long stall.
TickTimes == DTs \cup {0, 1, 100000}

\* C13: the P key of a game that is not over changes the paused flag and
\* nothing else, and pressed again gives back the state it started from;
\* while the game is paused or over, tick(dt) and a whole frame of main()
\* leave every field unchanged, the drop timer included, for every dt.
C13_PauseNoSideEffects ==
    \A perm \in Perms :
        /\ ~game_over =>
              \A g2 \in {on_keydown(game, "K_p", perm)} :
                  /\ g2 = [game EXCEPT !.paused = ~paused]
                  /\ on_keydown(g2, "K_p", perm) = game
        /\ (game_over \/ paused) =>
              /\ \A dt \in TickTimes : tick(game, dt, perm) = game
              /\ \A dt \in TickTimes, due \in DueSets : on_frame(game, dt, due, perm) = game

\* A game paused while the piece was falling, the drop timer half way to the
\* interval.
C13_Witness ==
    /\ paused
    /\ ~game_over
    /\ locked = 0
    /\ current.row = 1
    /\ drop_timer = 400

\* ------------------------------------------------------------------------
\* C14
\* ------------------------------------------------------------------------

\* C14: whatever the shuffles, the draws 7j+1 .. 7j+7 counted from the first
\* draw of a game hold each of the seven kinds exactly once; the bag never
\* holds a name twice, loses exactly its last name at a draw that finds it
\* non-empty, and is refilled only when a draw finds it empty, with the seven
\* kinds of which the draw takes one.
C14_SevenBag ==
    [][ /\ Len(bag') > Len(bag) => bag = <<>>
        /\ bag # <<>> => bag' = SubSeq(bag, 1, Len(bag) - 1) /\ next'.name = bag[Len(bag)]
        /\ bag = <<>> => /\ Len(bag') = 6
                         /\ Names(bag') \cup {next'.name} = Kinds
        /\ Cardinality(Names(bag')) = Len(bag')
        /\ \A k \in Kinds : stream'.dealt[k] <= 1
        /\ Dealt(stream') = 7 => \A k \in Kinds : stream'.dealt[k] = 1 ]_vars

\* Seven draws completed in which the kind watched, I, came last, after six
\* draws of the other kinds.
C14_Witness ==
    /\ bag = <<>>
    /\ Dealt(stream) = 7
    /\ \A k \in Kinds : stream.dealt[k] = 1
    /\ stream.watch = "I"
    /\ next.name = "I"

\* ------------------------------------------------------------------------
\* C15
\* ------------------------------------------------------------------------

\* C15: whatever kind is watched and whatever the shuffles, at most 12 draws
\* in a row deal other kinds: the kind comes back after at most 12 draws.
C15_AbsentAtMostTwelve ==
    stream.watch \in Kinds => stream.absent <= 12

\* The worst case: twelve draws in a row without the kind watched, which was
\* dealt first from one bag and is the last name left in the next.
C15_Witness ==
    /\ stream.watch = "T"
    /\ stream.absent = 12
    /\ bag = <<"T">>

\* ------------------------------------------------------------------------
\* C16
\* ------------------------------------------------------------------------

\* The number of rotation states of each kind.
RotationStates ==
    [k \in Kinds |-> IF k = "O" THEN 1 ELSE IF k \in {"I", "S", "Z"} THEN 2 ELSE 4]

\* C16: after any sequence of rotations by +1 and -1 the rotation index of a
\* piece of a kind with N rotation states (O: 1, I/S/Z: 2, T/J/L: 4) is in
\* 0..N-1, and one more Piece.rotate in either direction leaves it there: +1
\* from N-1 gives 0, -1 from 0 gives N-1, and name, row and column stay;
\* rotated_cells(direction) is the cells of the piece so rotated.
C16_RotationIndex ==
    LET N == Len(rotations(current))
    IN  /\ N = RotationStates[current.name]
        /\ current.rot_index \in 0..(N - 1)
        /\ \A direction \in Directions :
              \A p \in {rotate_piece(current, direction)} :
                  /\ p.rot_index \in 0..(N - 1)
                  /\ p.rot_index =
                        IF direction = 1
                        THEN IF current.rot_index = N - 1 THEN 0 ELSE current.rot_index + 1
                        ELSE IF current.rot_index = 0 THEN N - 1 ELSE current.rot_index - 1
                  /\ p = [current EXCEPT !.rot_index = p.rot_index]
                  /\ rotated_cells(current, direction) = cells(p)

\* A T piece turned to its rotation state 1, below the spawn row and left of
\* the spawn column: -1 brings it to state 0, and from state 0 a rotation by
\* -1 wraps to state 3.
C16_Witness ==
    /\ current = [piece_at("T", 1, (COLS \div 2) - 2) EXCEPT !.rot_index = 1]
    /\ rotate_piece(current, -1).rot_index = 0
    /\ rotate_piece(rotate_piece(current, -1), -1).rot_index = 3

\* ------------------------------------------------------------------------
\* C17
\* ------------------------------------------------------------------------

\* C17: no row of the board is full in any state, and wherever the current
\* piece of a running game comes to rest, locking it there fills at most four
\* rows; clear_lines returns their number, a key of LINE_SCORES, and leaves
\* no full row, after a hard drop and after a lock by gravity alike.
C17_AtMostFourLines ==
    /\ FullRows(board) = {}
    /\ Running =>
          /\ \A b \in {lock_piece(board, [current EXCEPT !.row = @ + DropDistance])} :
                /\ Cardinality(FullRows(b)) \in 0..4
                /\ clear_lines(b).result = Cardinality(FullRows(b))
          /\ \A perm \in Perms :
                /\ \A g2 \in {on_keydown(game, "K_SPACE", perm)} :
                      /\ g2.lines - lines \in {0, 1, 2, 3, 4}
                      /\ FullRows(g2.board) = {}
                /\ \A dt \in DTs :
                      \A g2 \in {on_frame(game, dt, {}, perm)} :
                          /\ g2.lines - lines \in {0, 1, 2, 3, 4}
                          /\ FullRows(g2.board) = {}

\* The I piece upright over the only hole of the four bottom rows with 9
\* lines cleared so far: its lock fills four rows at once, the bottom row
\* among them.
C17_Witness ==
    /\ Running
    /\ lines = 9
    /\ FullRows(lock_piece(board, [current EXCEPT !.row = @ + DropDistance]))
          = (ROWS - 4)..(ROWS - 1)

\* ------------------------------------------------------------------------
\* C18
\* ------------------------------------------------------------------------

\* C18: in a running game soft_drop returns true exactly when the cells one
\* row below the current piece are free; then the piece is one row lower, the
\* score one point higher and nothing else differs.  Otherwise it returns
\* false and the game is as it was: same score, same piece, same board (the
\* piece is not locked).  The down key does what soft_drop does.
C18_SoftDrop ==
    Running =>
        \A d \in {soft_drop(game)} :
            /\ d.result \in BOOLEAN
            /\ d.result <=> AllFree(board, Lowered(1))
            /\ d.result <=> d.self.current.row = current.row + 1
            /\ d.result <=> d.self.score = score + 1
            /\ d.result => d.self = [game EXCEPT !.score = score + 1,
                                                 !.current.row = current.row + 1]
            /\ ~d.result => d.self = game
            /\ \A perm \in Perms : on_keydown(game, "K_DOWN", perm) = d.self

\* The first piece of a game in progress one row below the spawn row, with an
\* occupied cell right below it: the next soft_drop is blocked.
C18_Witness ==
    /\ Running
    /\ locked = 0
    /\ current.row = 1
    /\ AllFree(board, Lowered(0))
    /\ ~AllFree(board, Lowered(1))
    /\ ~soft_drop(game).result

\* ------------------------------------------------------------------------
\* C19
\* ------------------------------------------------------------------------

\* C19: in every state of a game that is not over the current piece has four
\* cells, each inside the grid and empty on the board, whatever keys and
\* frames led there.
C19_PieceInFreeCells ==
    ~game_over =>
        /\ Len(cells(current)) = 4
        /\ Cardinality(Lowered(0)) = 4
        /\ \A i \in 1..4 : cells(current)[i] \in Lowered(0)
        /\ AllFree(board, Lowered(0))
        /\ is_valid(board, cells(current))

\* The first piece of a game in progress, a T turned once in the top row: the
\* cells of the turn in place are not free, so the piece stands one column to
\* the right, with an occupied cell right below it.
C19_Witness ==
    /\ ~game_over
    /\ locked = 0
    /\ current = [name |-> "T", rot_index |-> 1, row |-> 0, col |-> 5]
    /\ ~AllFree(board, CellsAt("T", 1, 0, 4))
    /\ ~AllFree(board, Lowered(1))

\* ------------------------------------------------------------------------
\* C20
\* ------------------------------------------------------------------------

\* C20: a step that is not the first restart of the session (a key other than
\* R, or a frame) starts with a score of at least 0 and leaves the score, the
\* line count and the level at least as high, and the drop interval at most
\* as long, as it found them.
C20_Monotone ==
    [][ restarted' = restarted =>
          /\ score >= 0
          /\ score' >= score
          /\ lines' >= lines
          /\ level' >= level
          /\ drop_interval' <= drop_interval ]_vars

\* A game taken without a restart from 9 lines at level 1 to 13 lines at
\* level 2 by one lock: score, lines and level are higher than at the start
\* and the drop interval is 70 ms shorter.
C20_Witness ==
    /\ ~restarted
    /\ locked = 1
    /\ lines = 13
    /\ level = 2
    /\ score > 900
    /\ drop_interval = 800 - 70

\* ------------------------------------------------------------------------
\* C21
\* ------------------------------------------------------------------------

\* The occupied cells of the board b.
OccupiedCells(b) ==
    { <<r, c>> \in (0..(ROWS - 1)) \X (0..(COLS - 1)) : b[r][c] # None }

\* The number of occupied cells of b.
Occupied(b) == Cardinality(OccupiedCells(b))

\* C21: a step that restarts the game leaves no occupied cell, no piece locked
\* and no line; a step that locks no piece leaves the board and the lines as
\* they are; a step that locks a piece locks one, and changes the number of
\* occupied cells by 4 less COLS for each line it clears, so that the number
\* stays 4 times the pieces locked less COLS times the lines.  A lock that
\* clears no line keeps every cell that was occupied.
C21_CellConservation ==
    [][ IF restarted' # restarted
        THEN /\ Occupied(board') = 0
             /\ locked' = 0
             /\ lines' = 0
        ELSE IF locked' = locked
        THEN /\ board' = board
             /\ lines' = lines
        ELSE /\ locked' = locked + 1
             /\ Occupied(board') - Occupied(board) = 4 - COLS * (lines' - lines)
             /\ lines' = lines => OccupiedCells(board) \subseteq OccupiedCells(board') ]_vars

\* The same count from the fresh game on: 4 cells for each piece locked, less
\* COLS for each line.
CellCountOfFreshGame ==
    Occupied(board) = 4 * locked - COLS * lines

\* A lock that cleared two lines at once, taking a game in progress from 22
\* to 24 lines: the four cells of the piece came and 2 * COLS cells went.
C21_Witness ==
    /\ ~restarted
    /\ ~game_over
    /\ locked = 1
    /\ lines = 24
    /\ Occupied(board) > 0

====
